---- MODULE Spec2Model ----
(***************************************************************************)
(* A model of the flood-monitoring extraction pipeline:                    *)
(*   full_load.py  FloodDataExtractor, run_full_extraction,                *)
(*                 run_incremental_extraction                              *)
(*   run_etl.py    FloodETL fetch loops, transform, create_features        *)
(*                                                                         *)
(* Spec        : runs of run_full_extraction / run_incremental_extraction  *)
(*               against a remote source that grows, with the data         *)
(*               directory on disk and process termination at any step.    *)
(* SpecExtract : runs of the two three-entity extractions,                 *)
(*               run_full_extraction and FloodETL.extract, against a       *)
(*               remote source of any size, with failures on any page.     *)
(* SpecFetch   : one fetch loop in isolation, for each loop of both        *)
(*               classes.                                                  *)
(* SpecFeat    : FloodETL transform + create_features on drawn inputs.     *)
(* SpecNorm    : the same on raw records with malformed fields.            *)
(***************************************************************************)
EXTENDS Naturals, Sequences, FiniteSets, TLC

(* ------------------------------ bounds -------------------------------- *)
\* Page size used by every fetch loop of the model (the code asks for 500 or
\* 1000 items a page; the loops do not depend on the number).
Limit == 2
\* The clock stops here; one reading arrives at the remote source per tick.
MaxTime == 2
\* The number of runs (full or incremental) a behaviour starts.
MaxRuns == 2
\* SpecFetch: the largest remote collection, and the requests one loop may issue.
MaxItems == 4
MaxRequests == 4
\* SpecFeat: the raw station and reading records drawn, and the reading times.
MaxStations == 2
MaxReadings == 3
MaxFeatTime == 2
\* SpecNorm: the raw records drawn of each kind.
MaxNorm == 1

VARIABLES
    now,      \* the wall clock (datetime.now())
    remote,   \* the remote readings collection, ascending by dateTime
    tables,   \* flood_data/*.csv: file name -> file
    marks,    \* flood_data/last_*extraction.txt: file name -> file
    entry,    \* the entry point called: "none" | "full" | "inc"
    run,      \* the function executing: "none" | "full" | "inc"
    ent,      \* the entity being extracted
    pc,       \* position in the run
    since,    \* last_extraction, as read at the start of an incremental run
    loop,     \* the fetch loop's locals, with the history of its requests
    wr,       \* the table write in progress: the file, its content before, the content being written
    snap,     \* the disk as it was when the run started
    nruns,    \* the number of runs started so far
    fx,       \* SpecFetch: the loop under test and the collection it pages through
    feat,     \* FloodETL transform / create_features (SpecFeat)
    trail     \* the loops the run has finished: the entity, how the loop ended, what it gathered

vars == <<now, remote, tables, marks, entry, run, ent, pc, since, loop, wr, snap, nruns, fx, feat, trail>>

(* ------------------------- records and schema ------------------------- *)
\* csv.DictWriter's restval: the value written for a field a record lacks.
Blank == 0

\* Python's sorted() on the field names the model uses (code point order).
FieldOrder == <<"@id", "dateTime", "label", "qualifier", "severity", "value">>

Range(s) == {s[i] : i \in DOMAIN s}

FieldNames(records) == UNION {DOMAIN records[i] : i \in DOMAIN records}

\* A faulty ordering: the names come out in descending order.
DescendingFields(S) ==
    LET up == SelectSeq(FieldOrder, LAMBDA c : c \in S)
    IN  [i \in DOMAIN up |-> up[Len(up) + 1 - i]]

\* sorted(<set of field names>)
SortedFields(S) == SelectSeq(FieldOrder, LAMBDA c : c \in S)

\* A faulty reconciliation: the existing header is left out of the union.
ReconcileNewOnly(existing_headers, new_readings) == SortedFields(FieldNames(new_readings))

\* all_fieldnames = sorted(existing_headers.union(new_fieldnames))
Reconcile(existing_headers, new_readings) ==
    SortedFields(existing_headers \cup FieldNames(new_readings))

\* One csv row: the record projected on the header, restval for a missing field.
Project(hdr, rec) ==
    [c \in Range(hdr) |-> IF c \in DOMAIN rec THEN rec[c] ELSE Blank]

ProjectAll(hdr, records) == [i \in DOMAIN records |-> Project(hdr, records[i])]

(* ------------------------------- files -------------------------------- *)
NoFile == [exists |-> FALSE, hdr |-> <<>>, rows |-> <<>>]
\* open(path, 'w') has truncated the file and nothing is written yet.
EmptyFile == [exists |-> TRUE, hdr |-> <<>>, rows |-> <<>>]

NoMark == [exists |-> FALSE, text |-> <<>>]
EmptyMark == [exists |-> TRUE, text |-> <<>>]

StationsCsv == "stations.csv"
ReadingsCsv == "readings.csv"
FloodsCsv == "flood_warnings.csv"
LastFull == "last_full_extraction.txt"
LastExtraction == "last_extraction.txt"

TableFiles == {StationsCsv, ReadingsCsv, FloodsCsv}
MarkFiles == {LastFull, LastExtraction}

FileOf(e) ==
    CASE e = "stations" -> StationsCsv
      [] e = "readings" -> ReadingsCsv
      [] e = "floods" -> FloodsCsv

(* --------------------------- remote source ---------------------------- *)
\* A reading as the remote source serves it: readings carry variable field sets.
Reading(i, t) ==
    IF i % 2 = 1
    THEN [k \in {"@id", "dateTime", "qualifier"} |-> IF k = "dateTime" THEN t ELSE i]
    ELSE [k \in {"@id", "dateTime", "value"} |-> IF k = "dateTime" THEN t ELSE i]

RemoteStations == << [k \in {"@id", "label"} |-> 1] >>
RemoteFloods == << [k \in {"@id", "severity"} |-> 1] >>

\* startdate of extract_historical_readings ("2010-01-01"): before every reading.
\* Its enddate is today's date, which leaves out nothing the source holds yet.
StartDate == 0

Min(a, b) == IF a < b THEN a ELSE b

\* The page of a collection at an offset.
Page(coll, offset) == SubSeq(coll, offset + 1, Min(offset + Limit, Len(coll)))

\* The collection a request of the current loop queries.
Collection(r, e, s) ==
    CASE e = "stations" -> RemoteStations
      [] e = "floods" -> RemoteFloods
      [] e = "readings" /\ r \in {"full", "etl"} ->
            \* FloodETL._extract_readings asks for the last 90 days, which also
            \* begin before every reading of the model.
            SelectSeq(remote, LAMBDA x : x["dateTime"] >= StartDate)
      [] e = "readings" /\ r = "inc" ->
            SelectSeq(remote, LAMBDA x : x["dateTime"] > s)

\* What one request can come back with: requests.get raises; a response with a
\* status, a body that parses as JSON or not, with an 'items' list or without.
Exc == [kind |-> "exc", ok |-> FALSE, json |-> FALSE, hasItems |-> FALSE, items |-> <<>>]
Http(ok, json, hasItems, items) ==
    [kind |-> "http", ok |-> ok, json |-> json, hasItems |-> hasItems, items |-> items]

(* ----------------------------- fetch loop ----------------------------- *)
\* The locals of a fetch loop (all_*, offset), how it ended ("run": it has not),
\* the errors it has logged, and the history of the offsets it requested and of
\* the responses it got.
NewLoop == [all |-> <<>>, offset |-> 0, status |-> "run", errors |-> 0,
            reqs |-> <<>>, resps |-> <<>>]

\* A faulty step: the offset is not advanced.
NextOffsetStuck(offset) == offset

\* offset += limit
NextOffset(offset) == offset + Limit

\* One iteration of a FloodDataExtractor loop (and of the incremental loop):
\* requests.get, raise_for_status, response.json, data.get('items', []).
ExtractorIter(l, resp) ==
    LET l1 == [l EXCEPT !.reqs = Append(@, l.offset), !.resps = Append(@, resp)]
        items == IF resp.hasItems THEN resp.items ELSE <<>>
    IN  IF resp.kind = "exc" \/ ~resp.ok \/ ~resp.json
        THEN [l1 EXCEPT !.status = "err", !.errors = @ + 1]
        ELSE IF items = <<>>
        THEN [l1 EXCEPT !.status = "end"]
        ELSE [l1 EXCEPT !.all = @ \o items, !.offset = NextOffset(@)]

\* One iteration of a FloodETL loop: requests.get, response.json,
\* data.get('items', []); the status of the response is not looked at.
ETLIter(l, resp) ==
    LET l1 == [l EXCEPT !.reqs = Append(@, l.offset), !.resps = Append(@, resp)]
        items == IF resp.hasItems THEN resp.items ELSE <<>>
    IN  IF resp.kind = "exc" \/ ~resp.json
        THEN [l1 EXCEPT !.status = "err", !.errors = @ + 1]
        ELSE IF items = <<>>
        THEN [l1 EXCEPT !.status = "end"]
        ELSE [l1 EXCEPT !.all = @ \o items, !.offset = NextOffset(@)]

(* ------------------------ the data directory -------------------------- *)
\* f.read().strip() of the watermark file.
ReadMark(m) == IF m.text = <<>> THEN Blank ELSE m.text[1]

\* The table a full load writes: header sorted(all_fieldnames), one row a record.
FullTable(records) ==
    LET hdr == SortedFields(FieldNames(records))
    IN  [exists |-> TRUE, hdr |-> hdr, rows |-> ProjectAll(hdr, records)]

\* A faulty append-merge: a new record whose '@id' is in the table is dropped.
MergedTableDedup(old, new_readings) ==
    LET hdr == Reconcile(Range(old.hdr), new_readings)
        fresh == SelectSeq(new_readings,
                           LAMBDA r : \A i \in DOMAIN old.rows : old.rows[i]["@id"] # r["@id"])
    IN  [exists |-> TRUE, hdr |-> hdr, rows |-> ProjectAll(hdr, old.rows \o fresh)]

\* The table the append-merge writes: the existing header united with the new
\* records' keys, the existing rows followed by the new records.
MergedTable(old, new_readings) ==
    LET hdr == Reconcile(Range(old.hdr), new_readings)
    IN  [exists |-> TRUE, hdr |-> hdr, rows |-> ProjectAll(hdr, old.rows \o new_readings)]

\* The watermark file a run writes.
MarkOf(r) == IF r = "full" THEN LastFull ELSE LastExtraction

NoWr == [file |-> "none", old |-> NoFile, new |-> NoFile]
NoSnap == [tables |-> [f \in TableFiles |-> NoFile], marks |-> [f \in MarkFiles |-> NoMark],
           now |-> 0]

(* ------------------------------ responses ----------------------------- *)
Failures == {Exc, Http(FALSE, TRUE, FALSE, <<>>), Http(TRUE, FALSE, FALSE, <<>>)}

Responses(coll, offset) == {Http(TRUE, TRUE, TRUE, Page(coll, offset))} \cup Failures

(* ------------------------------- Spec --------------------------------- *)
\* data/raw/*.json, by the entity saved in it.
RawFiles == {"stations", "readings", "floods"}

\* The data directory of FloodETL: the raw files that exist (saved) with their
\* records, the processed csv files, the feature table.
NoFeat == [stage |-> "none", saved |-> {},
           raw_stations |-> <<>>, raw_readings |-> <<>>, raw_floods |-> <<>>,
           stations_csv |-> <<>>, readings_csv |-> <<>>, floods_csv |-> <<>>,
           features |-> <<>>]
NoFx == [which |-> "none", coll |-> <<>>, returned |-> FALSE, ret |-> <<>>]

\* The data directory is an input: it is empty, or it holds a
\* last_extraction.txt put there by the operator (the only way the
\* since-filtered branch of run_incremental_extraction is ever taken: no run
\* creates that file, see C1).
Init ==
    /\ now = 0
    /\ remote = <<>>
    /\ tables = [f \in TableFiles |-> NoFile]
    /\ marks \in {[f \in MarkFiles |-> NoMark],
                  [f \in MarkFiles |-> IF f = LastExtraction
                                       THEN [exists |-> TRUE, text |-> <<0>>] ELSE NoMark]}
    /\ entry = "none" /\ run = "none" /\ ent = "none" /\ pc = "idle"
    /\ since = Blank
    /\ loop = NewLoop
    /\ wr = NoWr
    /\ snap = NoSnap
    /\ nruns = 0
    /\ fx = NoFx
    /\ feat = NoFeat
    /\ trail = <<>>

\* A reading is taken and published by the remote source.
Arrive ==
    /\ now < MaxTime
    /\ now' = now + 1
    /\ remote' = Append(remote, Reading(Len(remote) + 1, now + 1))
    /\ UNCHANGED <<tables, marks, entry, run, ent, pc, since, loop, wr, snap, nruns, fx, feat, trail>>

StartRun(e, r, s) ==
    /\ entry' = e
    /\ run' = r
    /\ since' = s
    /\ ent' = IF r = "inc" THEN "readings" ELSE "stations"
    /\ pc' = "fetch"
    /\ loop' = NewLoop
    /\ wr' = NoWr
    /\ snap' = [tables |-> tables, marks |-> marks, now |-> now]
    /\ nruns' = nruns + 1
    /\ trail' = <<>>
    /\ UNCHANGED <<now, remote, tables, marks, fx, feat>>

\* run_full_extraction is called.
RunFullExtraction ==
    /\ pc = "idle"
    /\ nruns < MaxRuns
    /\ StartRun("full", "full", Blank)

\* A faulty start: a missing watermark file is read as an empty one.
RunIncrementalSinceBlank ==
    /\ pc = "idle"
    /\ nruns < MaxRuns
    /\ StartRun("inc", "inc", ReadMark(marks[LastExtraction]))

\* run_incremental_extraction is called: it reads last_extraction.txt, and runs
\* run_full_extraction when the file is not found.
RunIncrementalExtraction ==
    /\ pc = "idle"
    /\ nruns < MaxRuns
    /\ IF marks[LastExtraction].exists
       THEN StartRun("inc", "inc", ReadMark(marks[LastExtraction]))
       ELSE StartRun("inc", "full", Blank)

\* One request of the current loop and what the loop does with the response.
FetchPage ==
    /\ pc = "fetch"
    /\ loop.status = "run"
    /\ \E resp \in Responses(Collection(run, ent, since), loop.offset) :
          loop' = IF run = "etl" THEN ETLIter(loop, resp) ELSE ExtractorIter(loop, resp)
    /\ UNCHANGED <<now, remote, tables, marks, entry, run, ent, pc, since, wr, snap, nruns, fx, feat, trail>>

\* The loop that has just been left, as the trail keeps it.
Finished == [ent |-> ent, status |-> loop.status, all |-> loop.all]

\* A faulty sequel: a loop that ended on a failure ends the run with it.
AdvanceOrAbort ==
    /\ trail' = Append(trail, Finished)
    /\ IF loop.status = "err"
       THEN /\ pc' = "raised"
            /\ UNCHANGED <<ent, loop>>
       ELSE IF run \in {"full", "etl"} /\ ent # "floods"
       THEN /\ ent' = IF ent = "stations" THEN "readings" ELSE "floods"
            /\ pc' = "fetch"
            /\ loop' = NewLoop
       ELSE /\ pc' = IF run = "etl" THEN "done" ELSE "wm_open"
            /\ UNCHANGED <<ent, loop>>

\* A faulty sequel: an incremental run that gathered nothing returns without
\* writing its timestamp.
AdvanceSkipMark ==
    /\ trail' = Append(trail, Finished)
    /\ IF run \in {"full", "etl"} /\ ent # "floods"
       THEN /\ ent' = IF ent = "stations" THEN "readings" ELSE "floods"
            /\ pc' = "fetch"
            /\ loop' = NewLoop
       ELSE /\ pc' = IF run = "etl" \/ (run = "inc" /\ loop.all = <<>>) THEN "done" ELSE "wm_open"
            /\ UNCHANGED <<ent, loop>>

\* What follows an entity: the next entity's loop; after the last, the
\* watermark write (full_load.py) or the return of extract (run_etl.py).
Advance ==
    /\ trail' = Append(trail, Finished)
    /\ IF run \in {"full", "etl"} /\ ent # "floods"
       THEN /\ ent' = IF ent = "stations" THEN "readings" ELSE "floods"
            /\ pc' = "fetch"
            /\ loop' = NewLoop
       ELSE /\ pc' = IF run = "etl" THEN "done" ELSE "wm_open"
            /\ UNCHANGED <<ent, loop>>

\* A faulty test: the table is written whatever was gathered.
HasRecordsAlways(all) == TRUE

\* if all_stations: / if all_readings: / if all_floods: / if new_readings:
HasRecords(all) == all # <<>>

\* A faulty header read: a missing table is read like an empty one.
HeaderReadRaisesOnMissing(r, old) == r = "inc" /\ old.hdr = <<>>

\* set(next(reader)) of the incremental run: next() on an existing file with
\* no line raises StopIteration; a missing file is not opened.
HeaderReadRaises(r, old) == r = "inc" /\ old.exists /\ old.hdr = <<>>

\* The loop has ended with no record: nothing is written for the entity.
SkipWrite ==
    /\ pc = "fetch"
    /\ run \in {"full", "inc"}
    /\ loop.status # "run"
    /\ ~HasRecords(loop.all)
    /\ Advance
    /\ UNCHANGED <<now, remote, tables, marks, entry, run, since, wr, snap, nruns, fx, feat>>

\* The loop has ended with records: the table file is opened for writing, which
\* truncates it. The incremental run first reads the existing header and rows.
OpenTable ==
    /\ pc = "fetch"
    /\ run \in {"full", "inc"}
    /\ loop.status # "run"
    /\ HasRecords(loop.all)
    /\ LET f == FileOf(ent)
           old == tables[f]
       IN  IF HeaderReadRaises(run, old)
           THEN \* next(reader) on an empty file raises StopIteration
                /\ pc' = "raised"
                /\ UNCHANGED <<tables, wr>>
           ELSE /\ tables' = [tables EXCEPT ![f] = EmptyFile]
                /\ wr' = [file |-> f, old |-> old,
                          new |-> IF run = "inc" THEN MergedTable(old, loop.all)
                                  ELSE FullTable(loop.all)]
                /\ pc' = "hdr"
    /\ UNCHANGED <<now, remote, marks, entry, run, ent, since, loop, snap, nruns, fx, feat, trail>>

\* writer.writeheader()
WriteHeader ==
    /\ pc = "hdr"
    /\ tables' = [tables EXCEPT ![wr.file].hdr = wr.new.hdr]
    /\ pc' = "rows"
    /\ UNCHANGED <<now, remote, marks, entry, run, ent, since, loop, wr, snap, nruns, fx, feat, trail>>

\* writer.writerows(...), and the file is closed. The rows reach the disk
\* together: a termination in the middle of them is stood for by the one
\* before them, which leaves the header alone.
WriteRows ==
    /\ pc = "rows"
    /\ tables' = [tables EXCEPT ![wr.file].rows = wr.new.rows]
    /\ Advance
    /\ UNCHANGED <<now, remote, marks, entry, run, since, wr, snap, nruns, fx, feat>>

\* open(<watermark file>, 'w')
OpenMark ==
    /\ pc = "wm_open"
    /\ marks' = [marks EXCEPT ![MarkOf(run)] = EmptyMark]
    /\ pc' = "wm_write"
    /\ UNCHANGED <<now, remote, tables, entry, run, ent, since, loop, wr, snap, nruns, fx, feat, trail>>

\* f.write(datetime.now().isoformat()), and the run returns.
WriteMark ==
    /\ pc = "wm_write"
    /\ marks' = [marks EXCEPT ![MarkOf(run)].text = <<now>>]
    /\ pc' = "done"
    /\ UNCHANGED <<now, remote, tables, entry, run, ent, since, loop, wr, snap, nruns, fx, feat, trail>>

\* The process is terminated in the middle of a run.
Crash ==
    /\ pc \in {"fetch", "hdr", "rows", "wm_open", "wm_write"}
    /\ pc' = "crashed"
    /\ UNCHANGED <<now, remote, tables, marks, entry, run, ent, since, loop, wr, snap, nruns, fx, feat, trail>>

\* The run is over; its locals are gone.
Return ==
    /\ pc \in {"done", "crashed", "raised"}
    /\ pc' = "idle"
    /\ entry' = "none" /\ run' = "none" /\ ent' = "none"
    /\ since' = Blank
    /\ loop' = NewLoop
    /\ wr' = NoWr
    /\ snap' = NoSnap
    /\ trail' = <<>>
    /\ UNCHANGED <<now, remote, tables, marks, nruns, fx, feat>>

Next ==
    \/ Arrive
    \/ RunFullExtraction
    \/ RunIncrementalExtraction
    \/ FetchPage
    \/ SkipWrite
    \/ OpenTable
    \/ WriteHeader
    \/ WriteRows
    \/ OpenMark
    \/ WriteMark
    \/ Crash
    \/ Return

Spec == Init /\ [][Next]_vars

(* ---------------------------- SpecExtract ----------------------------- *)
\* The remote source holds any number of readings, taken one a tick.
InitExtract ==
    /\ now \in 0..MaxTime
    /\ remote = [i \in 1..now |-> Reading(i, i)]
    /\ tables = [f \in TableFiles |-> NoFile]
    /\ marks = [f \in MarkFiles |-> NoMark]
    /\ entry = "none" /\ run = "none" /\ ent = "none" /\ pc = "idle"
    /\ since = Blank
    /\ loop = NewLoop
    /\ wr = NoWr
    /\ snap = NoSnap
    /\ nruns = 0
    /\ fx = NoFx
    /\ feat = NoFeat
    /\ trail = <<>>

\* FloodETL.extract is called.
Extract ==
    /\ pc = "idle"
    /\ nruns < MaxRuns
    /\ StartRun("etl", "etl", Blank)

\* self._save_json(<what the loop returned>, self.raw_dir / "<entity>.json"),
\* whatever the loop gathered; after the floods, extract returns.
SaveJson ==
    /\ pc = "fetch"
    /\ run = "etl"
    /\ loop.status # "run"
    /\ feat' = [feat EXCEPT !.stage = IF ent = "floods" THEN "raw" ELSE @,
                            !.saved = @ \cup {ent},
                            !.raw_stations = IF ent = "stations" THEN loop.all ELSE @,
                            !.raw_readings = IF ent = "readings" THEN loop.all ELSE @,
                            !.raw_floods = IF ent = "floods" THEN loop.all ELSE @]
    /\ Advance
    /\ UNCHANGED <<now, remote, tables, marks, entry, run, since, wr, snap, nruns, fx>>

NextExtract ==
    \/ RunFullExtraction
    \/ Extract
    \/ FetchPage
    \/ SkipWrite
    \/ OpenTable
    \/ WriteHeader
    \/ WriteRows
    \/ SaveJson
    \/ OpenMark
    \/ WriteMark
    \/ Return

SpecExtract == InitExtract /\ [][NextExtract]_vars

(* ----------------------------- SpecFetch ------------------------------ *)
ExtractorLoops == {"extract_all_stations", "extract_historical_readings",
                   "extract_flood_warnings", "run_incremental_extraction"}
ETLLoops == {"_extract_paginated_data", "_extract_readings"}
FetchLoops == ExtractorLoops \cup ETLLoops

Item(i) == [k \in {"@id"} |-> i]
ItemsTo(n) == [i \in 1..n |-> Item(i)]

\* An error body that happens to hold an 'items' list.
ErrorItems == << [k \in {"error"} |-> 1] >>

\* Everything a request can come back with: the page the server holds at the
\* offset; a 200 whose JSON has no 'items'; a 200 whose body is not JSON; a
\* non-2xx whose body is not JSON, is JSON without 'items', or is JSON with
\* 'items'; no response at all.
AnyResponse(coll, offset) ==
    {Http(TRUE, TRUE, TRUE, Page(coll, offset)),
     Http(TRUE, TRUE, FALSE, <<>>),
     Http(TRUE, FALSE, FALSE, <<>>),
     Http(FALSE, FALSE, FALSE, <<>>),
     Http(FALSE, TRUE, FALSE, <<>>),
     Http(FALSE, TRUE, TRUE, ErrorItems),
     Exc}

Iterate(which, l, resp) ==
    IF which \in ETLLoops THEN ETLIter(l, resp) ELSE ExtractorIter(l, resp)

InitFetch ==
    /\ now = 0
    /\ remote = <<>>
    /\ tables = [f \in TableFiles |-> NoFile]
    /\ marks = [f \in MarkFiles |-> NoMark]
    /\ entry = "none" /\ run = "none" /\ ent = "none" /\ pc = "idle"
    /\ since = Blank
    /\ loop = NewLoop
    /\ wr = NoWr
    /\ snap = NoSnap
    /\ nruns = 0
    /\ \E w \in FetchLoops, n \in 0..MaxItems :
          fx = [which |-> w, coll |-> ItemsTo(n), returned |-> FALSE, ret |-> <<>>]
    /\ feat = NoFeat
    /\ trail = <<>>

\* One iteration of the loop under test.
FetchStep ==
    /\ loop.status = "run"
    /\ Len(loop.reqs) < MaxRequests
    /\ \E resp \in AnyResponse(fx.coll, loop.offset) :
          loop' = Iterate(fx.which, loop, resp)
    /\ UNCHANGED <<now, remote, tables, marks, entry, run, ent, pc, since, wr, snap, nruns, fx, feat, trail>>

\* return all_data: the list is all the caller gets.
FetchReturn ==
    /\ loop.status # "run"
    /\ ~fx.returned
    /\ fx' = [fx EXCEPT !.returned = TRUE, !.ret = loop.all]
    /\ UNCHANGED <<now, remote, tables, marks, entry, run, ent, pc, since, loop, wr, snap, nruns, feat, trail>>

NextFetch == FetchStep \/ FetchReturn

SpecFetch == InitFetch /\ [][NextFetch]_vars

(* ---------------------- claims on the fetch loops --------------------- *)
\* The request got no usable page: no response, a non-2xx status, or a body
\* that is not JSON.
IsFailure(resp) == resp.kind = "exc" \/ ~resp.ok \/ ~resp.json

\* The item list of a response's body, empty when the body has none.
ItemsOf(resp) == IF resp.json /\ resp.hasItems THEN resp.items ELSE <<>>

RECURSIVE ConcatItems(_, _)
\* The items of the first n responses, in order.
ConcatItems(resps, n) ==
    IF n = 0 THEN <<>> ELSE ConcatItems(resps, n - 1) \o ItemsOf(resps[n])

FirstFailure(resps) ==
    CHOOSE k \in DOMAIN resps :
        IsFailure(resps[k]) /\ \A i \in 1..(k - 1) : ~IsFailure(resps[i])

\* C5: if the k-th page request fails, the result returned is the
\* concatenation, in order, of the items of pages 1..k-1, no further page is
\* requested, and the failure is reported, not silently swallowed: at the least
\* an error has been logged.
C5_PartialFailureReported ==
    (fx.returned /\ \E k \in DOMAIN loop.resps : IsFailure(loop.resps[k]))
        => LET k == FirstFailure(loop.resps)
           IN  /\ fx.ret = ConcatItems(loop.resps, k - 1)
               /\ Len(loop.reqs) = k
               /\ loop.errors > 0

\* C6: a non-2xx response is a request-level failure in every loop: the loop
\* stops there with an error logged, and the result is the items of the pages
\* before it, nothing of the non-2xx body.
C6_Non2xxIsFailure ==
    \A k \in DOMAIN loop.resps :
        (loop.resps[k].kind = "http" /\ ~loop.resps[k].ok)
            => /\ k = Len(loop.resps)
               /\ loop.status = "err"
               /\ loop.errors > 0
               /\ loop.all = ConcatItems(loop.resps, k - 1)

\* C7: the offsets requested are 0, limit, 2*limit, ...; no request follows a
\* page whose item list is empty or missing; and the result of a loop that
\* ended on such a page is the items of exactly the pages before it.
C7_OffsetsAndTermination ==
    /\ \A i \in DOMAIN loop.reqs : loop.reqs[i] = (i - 1) * Limit
    /\ \A i, j \in DOMAIN loop.reqs : i < j => loop.reqs[i] < loop.reqs[j]
    /\ \A i \in DOMAIN loop.resps :
          (~IsFailure(loop.resps[i]) /\ ItemsOf(loop.resps[i]) = <<>>)
              => i = Len(loop.resps) /\ loop.status = "end"
    /\ loop.status = "end" => loop.all = ConcatItems(loop.resps, Len(loop.resps) - 1)

\* C7 witness: a loop has paged through a collection of more than one page
\* and has ended on the first empty page.
C7_Witness ==
    /\ loop.status = "end"
    /\ Len(loop.reqs) = 3
    /\ loop.all = fx.coll
    /\ Len(fx.coll) > Limit
    /\ ItemsOf(loop.resps[3]) = <<>>

\* The pages of a collection that hold an item: ceil(n / limit).
NonEmptyPages(coll) == (Len(coll) + Limit - 1) \div Limit

\* The loop ended on the response: a failure, or a page with no item.
EndsLoop(resp) == IsFailure(resp) \/ ItemsOf(resp) = <<>>

\* C21: every fetch loop terminates when each request returns (a page of the
\* finite collection at the offset asked for, or a failure): it issues no more
\* requests than the collection has pages with an item, plus one; once it has
\* issued that many it has ended; and a loop that has ended has ended on an
\* empty page or on a failure, not on a count of pages.
C21_LoopTerminates ==
    /\ Len(loop.reqs) <= NonEmptyPages(fx.coll) + 1
    /\ Len(loop.reqs) = NonEmptyPages(fx.coll) + 1 => loop.status # "run"
    /\ loop.status # "run" => EndsLoop(loop.resps[Len(loop.resps)])

(* ------------------- claims on the extraction runs -------------------- *)
Readings == tables[ReadingsCsv]

\* The reading is a row of the persisted readings table.
InTable(r) == \E i \in DOMAIN Readings.rows : Readings.rows[i]["@id"] = r["@id"]

NonDecreasing(rows) ==
    \A i, j \in DOMAIN rows : i < j => rows[i]["dateTime"] <= rows[j]["dateTime"]

\* Every table on disk is the complete table of its remote collection: what a
\* full extraction without any failure leaves.
FullLoadOnDisk ==
    /\ tables[StationsCsv] = FullTable(RemoteStations)
    /\ tables[FloodsCsv] = FullTable(RemoteFloods)
    /\ remote = <<>> \/ Readings = FullTable(remote)

\* C1: once run_full_extraction has completed, the watermark file that
\* run_incremental_extraction reads is present, and an incremental run that
\* starts after a completed full extraction takes the since-filtered branch
\* instead of falling back to a full load.
C1_WatermarkPresentAfterFull ==
    /\ (pc = "done" /\ run = "full" /\ FullLoadOnDisk) => marks[LastExtraction].exists
    /\ (entry = "inc" /\ snap.marks[LastFull].text # <<>>
            /\ snap.tables[StationsCsv] = FullTable(RemoteStations)
            /\ snap.tables[FloodsCsv] = FullTable(RemoteFloods)) => run = "inc"

\* C2: when a watermark value t is stored, every reading the remote source holds
\* with a timestamp up to and including t is a row of the readings table. Stated
\* after a completed incremental run during which the remote source did not
\* change, so that what is missing was held by the source when the run fetched.
C2_WatermarkCoversTable ==
    (pc = "done" /\ run = "inc" /\ snap.now = now /\ marks[LastExtraction].text # <<>>)
        => \A i \in DOMAIN remote :
              remote[i]["dateTime"] <= marks[LastExtraction].text[1] => InTable(remote[i])

\* C3: when a run is terminated during a table write, the table on disk is the
\* complete new table or the intact previous table.
C3_TableWriteAtomic ==
    (pc = "crashed" /\ wr.file # "none") => tables[wr.file] \in {wr.old, wr.new}

\* C4: a run terminated before its watermark write has completed, the write
\* itself included, leaves the watermark files as they were when the run started.
C4_CrashKeepsWatermark ==
    pc = "crashed" => marks = snap.marks

\* C8: the rows of the persisted readings table are in non-decreasing
\* timestamp order, whatever runs came before.
C8_RowsInTimeOrder == NonDecreasing(Readings.rows)

\* C9: when an incremental run has completed, the readings table's column set
\* holds every column the table had when the run started and every key of every
\* record of the batch (the empty batch included).
C9_SchemaMonotone ==
    (pc = "done" /\ run = "inc")
        => (Range(snap.tables[ReadingsCsv].hdr) \cup FieldNames(loop.all))
               \subseteq Range(Readings.hdr)

\* C9 witness: a completed append-merge whose batch lacks a column of the
\* existing header and brings a column the header did not have.
C9_Witness ==
    /\ pc = "done" /\ run = "inc" /\ loop.all # <<>>
    /\ Range(snap.tables[ReadingsCsv].hdr) \ FieldNames(loop.all) # {}
    /\ FieldNames(loop.all) \ Range(snap.tables[ReadingsCsv].hdr) # {}
    /\ Len(Readings.rows) > Len(loop.all)

\* The run has finished the loop of the entity.
Extracted(e) == \E i \in DOMAIN trail : trail[i].ent = e

\* What the run's loop of the entity gathered.
Gathered(e) == trail[CHOOSE i \in DOMAIN trail : trail[i].ent = e].all

\* How the run's loop of the entity ended.
EndOf(e) == trail[CHOOSE i \in DOMAIN trail : trail[i].ent = e].status

\* C13: an incremental run re-extracts stations and floods wholesale: when it
\* has completed (here: with no request of its own failed), it has fetched the
\* stations and the floods, and a table of theirs holds what the run fetched.
C13_IncrementalRefetchesStationsFloods ==
    (pc = "done" /\ run = "inc" /\ loop.status = "end")
        => \A e \in {"stations", "floods"} :
              /\ Extracted(e)
              /\ Gathered(e) # <<>> => tables[FileOf(e)] = FullTable(Gathered(e))

\* The raw file FloodETL.extract saves for an entity.
RawOf(e) ==
    CASE e = "stations" -> feat.raw_stations
      [] e = "readings" -> feat.raw_readings
      [] e = "floods" -> feat.raw_floods

\* A request of the run has failed: in a loop it has finished, or in the one
\* it is in.
SomeLoopFailed == loop.status = "err" \/ \E i \in DOMAIN trail : trail[i].status = "err"

\* C14: a fetch failure in one entity's loop does not abort the run: a run of
\* run_full_extraction or FloodETL.extract in which a request failed never
\* raises, and when it has reached its end it has gone through stations,
\* readings and floods in that order and has persisted what each loop
\* gathered (the csv table of a loop that gathered records; the raw file in
\* FloodETL).
C14_FailureEndsOnlyItsLoop ==
    (run \in {"full", "etl"} /\ SomeLoopFailed)
        => /\ pc # "raised"
           /\ pc = "done"
                => /\ [i \in DOMAIN trail |-> trail[i].ent] = <<"stations", "readings", "floods">>
                   /\ \A e \in {"stations", "readings", "floods"} :
                         IF run = "etl"
                         THEN e \in feat.saved /\ RawOf(e) = Gathered(e)
                         ELSE Gathered(e) # <<>> => tables[FileOf(e)] = FullTable(Gathered(e))

\* C14 witness: a full extraction whose stations loop failed on its first
\* request has reached its end with the readings and the floods persisted.
C14_Witness ==
    /\ pc = "done" /\ run = "full"
    /\ EndOf("stations") = "err" /\ Gathered("stations") = <<>>
    /\ remote # <<>> /\ Readings = FullTable(remote)
    /\ tables[FloodsCsv] = FullTable(RemoteFloods)
    /\ marks[LastFull].text # <<>>

\* The readings table as the run found it.
Existing == snap.tables[ReadingsCsv]

\* The append-merge of an incremental run has written the table.
Merged == run = "inc" /\ pc \in {"wm_open", "wm_write", "done"} /\ loop.all # <<>>

\* The row holds every field of the record (or of the earlier row) unchanged.
Keeps(row, rec) == \A c \in DOMAIN rec : c \in DOMAIN row /\ row[c] = rec[c]

\* C15: after an append-merge with a non-empty batch, the table's rows are the
\* existing rows in their previous order followed by the new records in fetch
\* order: existing + new rows, none dropped, whatever their identifiers.
C15_AppendKeepsAllRows ==
    Merged
        => LET n == Len(Existing.rows)
           IN  /\ Len(Readings.rows) = n + Len(loop.all)
               /\ \A i \in 1..n : Keeps(Readings.rows[i], Existing.rows[i])
               /\ \A j \in DOMAIN loop.all : Keeps(Readings.rows[n + j], loop.all[j])

\* C15 witness: an append-merge has written a record whose identifier was in
\* the table already, and the table holds it twice.
C15_Witness ==
    /\ Merged /\ pc = "done"
    /\ \E i \in DOMAIN Existing.rows, j \in DOMAIN loop.all :
          /\ Existing.rows[i]["@id"] = loop.all[j]["@id"]
          /\ Readings.rows[i]["@id"] = Readings.rows[Len(Existing.rows) + j]["@id"]

\* C16: an incremental run that finds no watermark is not an error: it runs
\* the full extraction, never raises, and when it has returned it has gone
\* through the three entity kinds.
C16_AbsentWatermarkRunsFull ==
    (entry = "inc" /\ ~snap.marks[LastExtraction].exists)
        => /\ run = "full"
           /\ pc # "raised"
           /\ pc = "done"
                => [i \in DOMAIN trail |-> trail[i].ent] = <<"stations", "readings", "floods">>

\* C16 witness: run_incremental_extraction, called on a data directory with no
\* watermark, has returned with the three complete tables on disk.
C16_Witness ==
    /\ entry = "inc" /\ run = "full" /\ pc = "done"
    /\ ~snap.marks[LastExtraction].exists
    /\ remote # <<>> /\ FullLoadOnDisk
    /\ \A i \in DOMAIN trail : trail[i].status = "end"

\* The place of a field name in code point order.
Rank(c) == CHOOSE k \in DOMAIN FieldOrder : FieldOrder[k] = c

\* The column list is strictly ascending: sorted, and no name twice.
Ascending(hdr) == \A i, j \in DOMAIN hdr : i < j => Rank(hdr[i]) < Rank(hdr[j])

\* C17: the column list a run writes is the sorted union of the existing field
\* names (none, in a full load) and every key of every new record; it is the
\* one list the inputs determine, and reconciling it again with the same
\* records gives it back unchanged.
C17_ReconcileSortedUnion ==
    pc \in {"hdr", "rows"}
        => LET existing_headers == IF run = "inc" THEN Range(wr.old.hdr) ELSE {}
               all_fieldnames == wr.new.hdr
           IN  /\ Range(all_fieldnames) = existing_headers \cup FieldNames(loop.all)
               /\ Ascending(all_fieldnames)
               /\ Reconcile(Range(all_fieldnames), loop.all) = all_fieldnames
               /\ Reconcile(Range(all_fieldnames), <<>>) = all_fieldnames

\* C17 witness: an append-merge has reconciled an existing header with a batch
\* where each has a field the other lacks.
C17_Witness ==
    /\ pc = "hdr" /\ run = "inc"
    /\ Range(wr.old.hdr) \ FieldNames(loop.all) # {}
    /\ FieldNames(loop.all) \ Range(wr.old.hdr) # {}
    /\ Len(wr.new.hdr) > Len(wr.old.hdr)

\* C18: an incremental run that has new readings and finds no readings table
\* does not raise, and the table it writes has the sorted union of the new
\* records' keys as columns and exactly the new records as rows.
C18_MissingTableIsEmpty ==
    (run = "inc" /\ ~Existing.exists /\ loop.status # "run" /\ loop.all # <<>>)
        => /\ pc # "raised"
           /\ pc \in {"wm_open", "wm_write", "done"}
                => /\ Readings.exists
                   /\ Range(Readings.hdr) = FieldNames(loop.all)
                   /\ Ascending(Readings.hdr)
                   /\ Len(Readings.rows) = Len(loop.all)
                   /\ \A j \in DOMAIN loop.all : Keeps(Readings.rows[j], loop.all[j])

\* C18 witness: an incremental run has completed that found no readings table
\* and fetched two readings with different keys.
C18_Witness ==
    /\ pc = "done" /\ run = "inc"
    /\ ~Existing.exists
    /\ Len(loop.all) > 1 /\ DOMAIN loop.all[1] # DOMAIN loop.all[2]
    /\ Len(Readings.rows) = Len(loop.all)

\* The loops of the run that gathered no record.
EmptyLoops == {i \in DOMAIN trail : trail[i].all = <<>>}

\* C19: a full extraction writes nothing for an entity whose loop gathered no
\* record (an empty collection, or a failure on the first page): the entity's
\* table is as the run found it; and the run, once complete, has recorded its
\* extraction timestamp all the same.
C19_EmptyEntityWritesNothing ==
    run = "full"
        => /\ \A i \in EmptyLoops :
                 tables[FileOf(trail[i].ent)] = snap.tables[FileOf(trail[i].ent)]
           /\ (pc = "done" /\ EmptyLoops # {})
                => /\ marks[LastFull].text # <<>>
                   /\ marks[LastFull].text[1] >= snap.now
                   /\ marks[LastFull].text[1] <= now

\* C19 witness: a full extraction whose readings loop failed on the first page
\* has completed, the readings table of an earlier run is still on disk, and
\* the timestamp is that of this run.
C19_Witness ==
    /\ pc = "done" /\ run = "full"
    /\ Extracted("readings") /\ Gathered("readings") = <<>> /\ EndOf("readings") = "err"
    /\ Existing.rows # <<>> /\ Readings = Existing
    /\ marks[LastFull].text = <<now>>
    /\ snap.marks[LastFull].text # <<now>>

\* C20: an incremental run whose loop gathered no reading (nothing new, or a
\* failure on the first page) leaves the readings table as it found it, does
\* not raise, and on completion has overwritten the watermark with the time of
\* the run.
C20_EmptyBatchKeepsTable ==
    (run = "inc" /\ loop.status # "run" /\ loop.all = <<>>)
        => /\ Readings = Existing
           /\ pc # "raised"
           /\ pc = "done"
                => /\ marks[LastExtraction].text # <<>>
                   /\ marks[LastExtraction].text[1] >= snap.now
                   /\ marks[LastExtraction].text[1] <= now

\* C20 witness: an incremental run whose first request failed has completed:
\* the readings table of an earlier run is unchanged and the watermark has
\* moved to the time of this run.
C20_Witness ==
    /\ pc = "done" /\ run = "inc"
    /\ loop.all = <<>> /\ loop.status = "err"
    /\ Existing.rows # <<>> /\ Readings = Existing
    /\ marks[LastExtraction].text = <<now>>
    /\ snap.marks[LastExtraction].text # <<now>>

(* ------------------- FloodETL: transform, features -------------------- *)
\* The columns that are carried through unchanged (river_name, town, lat, long,
\* status, unit, parameter, qualifier, the processing timestamps) and the
\* calendar columns computed row by row are left out: they add, drop and
\* reorder no row.
\* dict.get(key, default)
Get(rec, key, default) == IF key \in DOMAIN rec THEN rec[key] ELSE default

\* A URI-shaped string is the sequence of the parts that split('/') gives;
\* ''.split('/') is [''].
EmptyUri == <<"">>

\* .split('/')[-1]
LastSegment(parts) == parts[Len(parts)]

\* A value that may be absent (None, NaN) is a sequence of at most one element.
Absent == <<>>
Opt(rec, key) == IF key \in DOMAIN rec THEN <<rec[key]>> ELSE Absent

\* _transform_stations: one normalized row a raw station.
TransformStations(raw_stations) ==
    [i \in DOMAIN raw_stations |->
        [station_id |-> LastSegment(Get(raw_stations[i], "@id", EmptyUri)),
         label |-> Opt(raw_stations[i], "label")]]

\* _transform_readings: one normalized row a raw reading.
TransformReadings(raw_readings) ==
    [i \in DOMAIN raw_readings |->
        [reading_id |-> LastSegment(Get(raw_readings[i], "@id", EmptyUri)),
         station_id |-> LastSegment(Get(raw_readings[i], "station", EmptyUri)),
         datetime |-> Opt(raw_readings[i], "dateTime"),
         value |-> Opt(raw_readings[i], "value")]]

\* A field value that is not a string (null, a number, a list, a mapping) has
\* no split: it stands as the empty sequence of parts, which no string splits
\* into.
NotAString == <<>>

\* <record>.get(key, '').split('/') raises AttributeError: the key is there and
\* its value is not a string.
SplitRaises(rec, key) == key \in DOMAIN rec /\ rec[key] = NotAString

\* The value of a flood's 'floodArea': a mapping, with a 'name' or without, or
\* something that is not a mapping (null, a string, a list).
Mapping(name) == [mapping |-> TRUE, name |-> name]
NotAMapping == [mapping |-> FALSE, name |-> Absent]

\* The default of flood.get('floodArea', {}).
EmptyMapping == Mapping(Absent)

\* flood.get('floodArea', {}).get('name') raises AttributeError: the key is
\* there and its value has no get.
GetNameRaises(flood) == "floodArea" \in DOMAIN flood /\ ~flood["floodArea"].mapping

\* _transform_floods: one normalized row a raw flood.
TransformFloods(raw_floods) ==
    [i \in DOMAIN raw_floods |->
        [flood_id |-> LastSegment(Get(raw_floods[i], "@id", EmptyUri)),
         severity |-> Opt(raw_floods[i], "severity"),
         area_name |-> Get(raw_floods[i], "floodArea", EmptyMapping).name]]

\* An exception leaves one of the three _transform_* loops of transform.
TransformRaises(raw_stations, raw_readings, raw_floods) ==
    \/ \E i \in DOMAIN raw_stations : SplitRaises(raw_stations[i], "@id")
    \/ \E i \in DOMAIN raw_readings :
          SplitRaises(raw_readings[i], "@id") \/ SplitRaises(raw_readings[i], "station")
    \/ \E i \in DOMAIN raw_floods :
          SplitRaises(raw_floods[i], "@id") \/ GetNameRaises(raw_floods[i])

\* to_csv and read_csv of an identifier column: the empty string is written as
\* an empty cell, and an empty cell is read as NaN.
CsvText(s) == IF s = "" THEN Absent ELSE <<s>>

\* DataFrame.to_csv(index=False) then pd.read_csv, for the two processed tables.
StationsCsvRoundTrip(df) ==
    [i \in DOMAIN df |-> [station_id |-> CsvText(df[i].station_id), label |-> df[i].label]]

ReadingsCsvRoundTrip(df) ==
    [i \in DOMAIN df |->
        [reading_id |-> CsvText(df[i].reading_id),
         station_id |-> CsvText(df[i].station_id),
         datetime |-> df[i].datetime,
         value |-> df[i].value]]

FloodsCsvRoundTrip(df) ==
    [i \in DOMAIN df |->
        [flood_id |-> CsvText(df[i].flood_id),
         severity |-> df[i].severity,
         area_name |-> df[i].area_name]]

\* The merged row of a reading and a station row (label absent: no station).
Joined(reading, label) ==
    [reading_id |-> reading.reading_id, station_id |-> reading.station_id,
     datetime |-> reading.datetime, value |-> reading.value, label |-> label]

\* The merged rows of one reading: one per station row with the reading's
\* station_id (NaN keys match each other), one with the station fields absent
\* when there is none.
JoinOne(reading, stations_df) ==
    LET m == SelectSeq(stations_df, LAMBDA st : st.station_id = reading.station_id)
    IN  IF m = <<>> THEN <<Joined(reading, Absent)>>
        ELSE [j \in DOMAIN m |-> Joined(reading, m[j].label)]

RECURSIVE MergeLeft(_, _)
\* pd.merge(readings_df, stations_df, on='station_id', how='left')
MergeLeft(readings_df, stations_df) ==
    IF readings_df = <<>> THEN <<>>
    ELSE JoinOne(Head(readings_df), stations_df) \o MergeLeft(Tail(readings_df), stations_df)

\* The order of sort_values(['station_id', 'datetime']): NaN comes last.
IdOrder == <<"S1", "S2">>
IdRank(id) ==
    IF id = Absent THEN Len(IdOrder) + 1
    ELSE CHOOSE k \in DOMAIN IdOrder : IdOrder[k] = id[1]
TimeRank(t) == IF t = Absent THEN MaxFeatTime + 1 ELSE t[1]

Before(a, b) ==
    \/ IdRank(a.station_id) < IdRank(b.station_id)
    \/ IdRank(a.station_id) = IdRank(b.station_id) /\ TimeRank(a.datetime) < TimeRank(b.datetime)

\* Stable insertion of a row behind every row that is not after it.
InsertRow(sorted, row) ==
    LET k == Cardinality({i \in DOMAIN sorted : ~Before(row, sorted[i])})
    IN  SubSeq(sorted, 1, k) \o <<row>> \o SubSeq(sorted, k + 1, Len(sorted))

RECURSIVE SortValues(_)
\* merged.sort_values(['station_id', 'datetime'])
SortValues(rows) ==
    IF rows = <<>> THEN <<>>
    ELSE InsertRow(SortValues(SubSeq(rows, 1, Len(rows) - 1)), rows[Len(rows)])

Lag1 == 1
Lag24 == 24

\* groupby('station_id')['value'].shift(n) at position p: the value n rows
\* earlier within the rows of the same station; NaN when there is no such row,
\* and for a row whose station_id is NaN (groupby drops NaN keys).
Shift(rows, p, n) ==
    LET same == {q \in 1..(p - 1) : rows[q].station_id = rows[p].station_id}
        src == {q \in same : Cardinality({x \in same : x >= q}) = n}
    IN  IF rows[p].station_id = Absent \/ src = {} THEN Absent
        ELSE rows[CHOOSE q \in src : TRUE].value

WithLags(rows) ==
    [p \in DOMAIN rows |->
        [reading_id |-> rows[p].reading_id, station_id |-> rows[p].station_id,
         datetime |-> rows[p].datetime, value |-> rows[p].value, label |-> rows[p].label,
         value_lag_1 |-> Shift(rows, p, Lag1),
         value_lag_24 |-> Shift(rows, p, Lag24)]]

\* create_features on the two processed tables as read back from disk.
Features(readings_df, stations_df) ==
    WithLags(SortValues(MergeLeft(readings_df, stations_df)))

(* ------------------------------ SpecFeat ------------------------------ *)
StationIds == {"S1", "S2"}
ReadingIds == <<"R1", "R2", "R3", "R4", "R5">>

\* Raw stations: with an '@id' URI or without one.
RawStations ==
    {[k \in {"@id", "label"} |-> IF k = "@id" THEN <<"stations", id>> ELSE "River X"]
        : id \in StationIds}
    \cup {[k \in {"label"} |-> "River Y"]}

\* The raw reading at position i: its owning station's URI, or none.
RawReadingAt(i, st, t) ==
    IF st = "none"
    THEN [k \in {"@id", "dateTime", "value"} |->
            IF k = "@id" THEN <<"readings", ReadingIds[i]>>
            ELSE IF k = "dateTime" THEN t ELSE 10 * i]
    ELSE [k \in {"@id", "station", "dateTime", "value"} |->
            IF k = "@id" THEN <<"readings", ReadingIds[i]>>
            ELSE IF k = "station" THEN <<"stations", st>>
            ELSE IF k = "dateTime" THEN t ELSE 10 * i]

\* A raw flood as the remote source serves it.
RawFlood ==
    [k \in {"@id", "severity", "floodArea"} |->
        IF k = "@id" THEN <<"floods", "F1">>
        ELSE IF k = "severity" THEN "Flood alert" ELSE Mapping(<<"Area A">>)]

SeqsUpTo(S, n) == UNION {[1..m -> S] : m \in 0..n}

InitFeat ==
    /\ now = 0
    /\ remote = <<>>
    /\ tables = [f \in TableFiles |-> NoFile]
    /\ marks = [f \in MarkFiles |-> NoMark]
    /\ entry = "none" /\ run = "none" /\ ent = "none" /\ pc = "idle"
    /\ since = Blank
    /\ loop = NewLoop
    /\ wr = NoWr
    /\ snap = NoSnap
    /\ nruns = 0
    /\ fx = NoFx
    /\ \E ss \in SeqsUpTo(RawStations, MaxStations),
          rs \in SeqsUpTo((StationIds \cup {"none"}) \X (1..MaxFeatTime), MaxReadings) :
          feat = [NoFeat EXCEPT
                    !.stage = "raw",
                    !.saved = RawFiles,
                    !.raw_stations = ss,
                    !.raw_readings = [i \in DOMAIN rs |-> RawReadingAt(i, rs[i][1], rs[i][2])],
                    !.raw_floods = <<RawFlood>>]
    /\ trail = <<>>

\* FloodETL.transform: the raw records are normalized, then saved as csv. An
\* exception in a _transform_* loop leaves transform before anything is saved.
Transform ==
    /\ feat.stage = "raw"
    /\ IF TransformRaises(feat.raw_stations, feat.raw_readings, feat.raw_floods)
       THEN feat' = [feat EXCEPT !.stage = "transform_raised"]
       ELSE feat' = [feat EXCEPT
                        !.stage = "transformed",
                        !.stations_csv = StationsCsvRoundTrip(TransformStations(feat.raw_stations)),
                        !.readings_csv = ReadingsCsvRoundTrip(TransformReadings(feat.raw_readings)),
                        !.floods_csv = FloodsCsvRoundTrip(TransformFloods(feat.raw_floods))]
    /\ UNCHANGED <<now, remote, tables, marks, entry, run, ent, pc, since, loop, wr, snap, nruns, fx, trail>>

\* FloodETL.create_features. The csv of an empty DataFrame has no columns, and
\* pd.read_csv raises on it.
CreateFeatures ==
    /\ feat.stage = "transformed"
    /\ IF feat.stations_csv = <<>> \/ feat.readings_csv = <<>>
       THEN feat' = [feat EXCEPT !.stage = "raised"]
       ELSE feat' = [feat EXCEPT !.stage = "featured",
                                 !.features = Features(feat.readings_csv, feat.stations_csv)]
    /\ UNCHANGED <<now, remote, tables, marks, entry, run, ent, pc, since, loop, wr, snap, nruns, fx, trail>>

NextFeat == Transform \/ CreateFeatures

SpecFeat == InitFeat /\ [][NextFeat]_vars

(* ------------------------------ SpecNorm ------------------------------ *)
\* Raw records of any shape: an '@id' or a 'station' that is missing, a URI, or
\* not a string; a 'floodArea' that is missing, a mapping, or not a mapping.
AnyId(kind, id) == {<<kind, id>>, NotAString}

AnyStations ==
    RawStations \cup {[k \in {"@id", "label"} |-> IF k = "@id" THEN NotAString ELSE "River Z"]}

AnyReadings ==
    {RawReadingAt(1, "S1", 1), RawReadingAt(1, "none", 1)}
    \cup {[RawReadingAt(1, "S1", 1) EXCEPT !["@id"] = NotAString],
          [RawReadingAt(1, "S1", 1) EXCEPT !["station"] = NotAString]}

AnyAreas == {Mapping(<<"Area A">>), Mapping(Absent), NotAMapping}

AnyFloods ==
    {[k \in {"@id", "floodArea"} |-> IF k = "@id" THEN id ELSE area]
        : id \in AnyId("floods", "F1"), area \in AnyAreas}
    \cup {[k \in {"@id"} |-> id] : id \in AnyId("floods", "F1")}
    \cup {[k \in {"floodArea"} |-> area] : area \in AnyAreas}

InitNorm ==
    /\ now = 0
    /\ remote = <<>>
    /\ tables = [f \in TableFiles |-> NoFile]
    /\ marks = [f \in MarkFiles |-> NoMark]
    /\ entry = "none" /\ run = "none" /\ ent = "none" /\ pc = "idle"
    /\ since = Blank
    /\ loop = NewLoop
    /\ wr = NoWr
    /\ snap = NoSnap
    /\ nruns = 0
    /\ fx = NoFx
    /\ \E ss \in SeqsUpTo(AnyStations, MaxNorm),
          rs \in SeqsUpTo(AnyReadings, MaxNorm),
          fs \in SeqsUpTo(AnyFloods, MaxNorm) :
          feat = [NoFeat EXCEPT
                    !.stage = "raw",
                    !.saved = RawFiles,
                    !.raw_stations = ss,
                    !.raw_readings = rs,
                    !.raw_floods = fs]
    /\ trail = <<>>

SpecNorm == InitNorm /\ [][NextFeat]_vars

(* -------------------- claims on the feature builder ------------------- *)
FeatureRowsOf(reading) ==
    {k \in DOMAIN feat.features : feat.features[k].reading_id = reading.reading_id}

\* C10: the left join produces exactly one feature row for every normalized
\* reading, whatever the station table: no matching station, or several station
\* rows with the same identifier.
C10_OneRowPerReading ==
    feat.stage = "featured"
        => /\ Len(feat.features) = Len(feat.readings_csv)
           /\ \A i \in DOMAIN feat.readings_csv :
                 Cardinality(FeatureRowsOf(feat.readings_csv[i])) = 1

\* The readings of a station, ascending by timestamp (readings of one timestamp
\* in the order of the readings table).
ReadingsOf(s) ==
    SelectSeq(SortValues(feat.readings_csv), LAMBDA r : r.station_id = <<s>>)

\* The lag a feature row is to carry: the value of the station's reading n
\* positions earlier, absent when there is none.
LagAt(rs, i, n) == IF i > n THEN rs[i - n].value ELSE Absent

\* C11: for every station, with its readings ascending by timestamp, the
\* feature row of the reading at position i carries as lag-1 (lag-24) the value
\* of the same station's reading at position i-1 (i-24), and the absent marker
\* when there is no such position.
C11_LagFromPreviousReading ==
    feat.stage = "featured"
        => \A s \in StationIds :
              LET rs == ReadingsOf(s)
              IN  \A i \in DOMAIN rs : \A k \in FeatureRowsOf(rs[i]) :
                     /\ feat.features[k].value_lag_1 = LagAt(rs, i, Lag1)
                     /\ feat.features[k].value_lag_24 = LagAt(rs, i, Lag24)

(* ----------------------- claims on normalization ---------------------- *)
\* The field of a raw record is malformed: present, and not of the type the
\* transformer takes it to be.
MalformedId(rec) == "@id" \in DOMAIN rec /\ rec["@id"] = NotAString
MalformedStation(rec) == "station" \in DOMAIN rec /\ rec["station"] = NotAString
MalformedArea(rec) == "floodArea" \in DOMAIN rec /\ ~rec["floodArea"].mapping

\* C12: normalization never aborts on a malformed field: once transform has
\* run, whatever the raw records, it has not raised, every raw record has its
\* normalized record, and a field that was malformed is the absent marker there.
C12_NormalizationTotal ==
    feat.stage \notin {"none", "raw"}
        => /\ feat.stage # "transform_raised"
           /\ Len(feat.stations_csv) = Len(feat.raw_stations)
           /\ Len(feat.readings_csv) = Len(feat.raw_readings)
           /\ Len(feat.floods_csv) = Len(feat.raw_floods)
           /\ \A i \in DOMAIN feat.raw_stations :
                 MalformedId(feat.raw_stations[i]) => feat.stations_csv[i].station_id = Absent
           /\ \A i \in DOMAIN feat.raw_readings :
                 /\ MalformedId(feat.raw_readings[i]) => feat.readings_csv[i].reading_id = Absent
                 /\ MalformedStation(feat.raw_readings[i])
                       => feat.readings_csv[i].station_id = Absent
           /\ \A i \in DOMAIN feat.raw_floods :
                 /\ MalformedId(feat.raw_floods[i]) => feat.floods_csv[i].flood_id = Absent
                 /\ MalformedArea(feat.raw_floods[i]) => feat.floods_csv[i].area_name = Absent

====
